---- MODULE Spec2Model ----
(***************************************************************************)
(* Model of the FCPP monitoring exercises: the group movement behaviour    *)
(* (lib/movement.hpp) and the consistency monitor with its network setup   *)
(* (run/exercises.cpp).                                                    *)
(*                                                                         *)
(* The aggregate-programming substrate the two files call into (old,       *)
(* constant, time_since, follow_target, Y, G, AS, sum_hood, the message    *)
(* exchange) is not part of the two files; it is modelled from the         *)
(* specification and kept apart from the definitions translated from the   *)
(* two files.                                                              *)
(***************************************************************************)
EXTENDS Integers, Sequences, FiniteSets, TLC

\* ------------------------------------------------------------ constants

\* movement.hpp:20, maximum allowed group size
max_group_size == 100

\* exercises.cpp:21, the maximum communication range between nodes
communication_range_wide == 200
communication_range == 100
\* exercises.cpp:134, retain<metric::retain<3,1>>: seconds a message is kept
retain_long == 5
retain == 3
\* exercises.cpp:76, more than 5 neighbours within a quarter of the range
warning_count == 5
\* exercises.cpp:77, at least 3 neighbours
cluster_count == 3

\* movement.hpp:22, width of the map (metres)
hi_x == 1200
\* movement.hpp:24, height of the map (metres)
hi_y == 800
\* exercises.cpp:147, spawn_group<1, 20, 50, 3>: radius (metres)
group_radius == 50
\* exercises.cpp:147, spawn_group<1, 20, 50, 3>: speed (km/h)
group_speed == 3
\* exercises.cpp:148, spawn_group<2, 10, 20, 5>: radius (metres)
group2_radius == 20
\* exercises.cpp:148, spawn_group<2, 10, 20, 5>: speed (km/h)
group2_speed == 5
\* movement.hpp:65, times_t period = 1
period == 1
\* movement.hpp:41, k = 0.75
k_num == 3
k_den == 4
\* movement.hpp:51, node.position() - t < 0.01
near_den == 100
\* movement.hpp:53, v < 0.1
slow_den == 10
\* movement.hpp:53, time_since(...) < 10
stuck_window == 10
\* movement.hpp:53, node.current_time() > 50
stuck_after == 50

\* ------------------------------------------------------------ bounds

\* rounds a device executes in the monitor model
MaxRounds == 5
\* length of the truth sequences fed to the Since operator
MaxLen == 4
\* clock ticks per second of simulated time in the network model
TicksPerSec == 2
\* last tick of the network model
MaxTime == 7
\* exports of a device the channel keeps (the most recent ones)
MaxKept == 2
\* length units per metre in the movement model (18 makes the speeds whole)
UnitsPerMetre == 18
\* fixed-point scale of the smoothed displacement
FixPt == 4
\* rounds a device executes in the movement model
MaxMoveRounds == 2
\* rounds the leader executes in the stuck-recovery model
MaxStuckRounds == 54

\* ------------------------------------------------------------ state

VARIABLES
    sp,      \* Since model: the sequence of p inputs fed so far
    sq,      \* Since model: the sequence of q inputs fed so far
    sh,      \* Since model: the value held by the AS call-site
    slot,    \* monitor model: slot[d][k], the round state store of device d
    rnd,     \* monitor model: rnd[d], the rounds device d has executed
    log,     \* monitor model: log[d], per executed round what was read,
             \*   committed and computed (history, not program state)
    stor,    \* monitor model: stor[d], the node storage of device d
    now,     \* network model: simulated time, in ticks
    nextT,   \* network model: nextT[d], the time of d's next round
    pc,      \* network model: pc[d], "idle" or "running" (inside a round)
    npos,    \* network model: npos[d], the position of d on a line
    chan,    \* network model: chan[d], the exports of d, oldest first
    imp,     \* network model: imp[d], what d's last import saw and returned
    mpos,    \* movement model: mpos[d], the position of d
    mrnd,    \* movement model: mrnd[d], the rounds d has executed
    mst,     \* movement model: mst[d], the round state of group_walk
    mlast,   \* movement model: mlast[d], what d's last round did (history)
    conf,    \* setup model: the configured spawn groups, records [id, size]
    nspawn,  \* setup model: nspawn[g], the spawn events of group g so far
    devs,    \* setup model: the uids of the devices spawned so far
    seen,    \* setup model: what the rounds executed so far computed of
             \*   their device's group (history)
    wcall    \* way-point model: the last way-point decision, its inputs
             \*   and its outcome

monVars == <<slot, rnd, log, stor>>
sinceVars == <<sp, sq, sh>>
netVars == <<now, nextT, pc, npos, chan, imp>>
moveVars == <<mpos, mrnd, mst, mlast>>
setupVars == <<conf, nspawn, devs, seen>>
auxVars == <<conf, nspawn, devs, seen, wcall>>
vars == <<sp, sq, sh, slot, rnd, log, stor, now, nextT, pc, npos, chan, imp,
          mpos, mrnd, mst, mlast, conf, nspawn, devs, seen, wcall>>

\* ------------------------------------------------------- round state store

\* A device of group 1 that is a follower, and the leader of group 2
\* (exercises.cpp:147-148: uids 100..119 and 200..209 are spawned).
Dev == {101, 200}

\* The state call-sites of a round that hold booleans.
Sites == {"gw_first", "mon_Y1", "mon_Y2", "mon_G", "mon_AS"}

\* split: the key is pushed on the stack trace for the duration of f()
SplitNoKey(path, key) == path
Split(path, key) == Append(path, key)

\* the partition key of the monitor, node.uid / max_group_size
GroupKey(d) == d \div max_group_size

\* the partition path inside the split of consistency_monitor
MonPath(d) == Split(<<>>, GroupKey(d))

Paths == {<<>>} \cup {<<g>> : g \in {GroupKey(d) : d \in Dev}}
Keys == Sites \X Paths

Unset == [set |-> FALSE, val |-> FALSE]
EmptyStore == [k \in Keys |-> Unset]

\* read_or_init: last round's committed value, the default without one
ReadOrInit(st, k, default) == IF st[k].set THEN st[k].val ELSE default
\* commit: the value the next round reads
Commit(st, k, v) == [st EXCEPT ![k] = [set |-> TRUE, val |-> v]]

\* the boolean call-sites and their defaults: old(CALL, true, false) in
\* group_walk, and the defaults of Y (false), G (true) and AS (false)
Default(site) == site \in {"gw_first", "mon_G"}

\* ------------------------------------------------ past-time operators

\* Y: the previous round's value of the argument, false without one
Yesterday(st, k) == ReadOrInit(st, k, FALSE)

\* G: the argument has held at every round of the device so far
Globally(st, k, x) == x /\ ReadOrInit(st, k, TRUE)

\* the incremental step of Since: h := q OR (p AND h_prev)
SinceNoReset(hprev, p, q) == q \/ hprev
Since(hprev, p, q) == q \/ (p /\ hprev)

\* AS: Since over the value the call-site held in the previous round
AllSince(st, k, p, q) == Since(ReadOrInit(st, k, FALSE), p, q)

\* Since by its definition, at round r of the sequences ps, qs: q held at
\* some round r2 <= r and p held at every round of (r2, r]
DirectSince(ps, qs, r) ==
    \E r2 \in 1..r : qs[r2] /\ \A i \in (r2 + 1)..r : ps[i]

\* ------------------------------------------------ consistency_monitor

KeyOf(site, d) == <<site, IF site = "gw_first" THEN <<>> ELSE MonPath(d)>>

\* bool alert_start = Y(CALL, !cluster) & cluster;
alert_start(st, d, cluster) == Yesterday(st, KeyOf("mon_Y1", d)) /\ cluster

\* bool alert_end = Y(CALL, cluster) & (!cluster);
alert_end(st, d, cluster) == Yesterday(st, KeyOf("mon_Y2", d)) /\ ~cluster

\* bool all_alerted = G(CALL, cluster);
all_alerted_noG(st, d, cluster) == cluster
all_alerted(st, d, cluster) == Globally(st, KeyOf("mon_G", d), cluster)

\* bool no_new_alarms_after_all_alerted = AS(CALL, !alert_start, all_alerted);
no_new_alarms_after_all_alerted(st, d, cluster) ==
    AllSince(st, KeyOf("mon_AS", d),
             ~alert_start(st, d, cluster), all_alerted(st, d, cluster))

\* return alert_end <= no_new_alarms_after_all_alerted;
consistency_monitor_rev(st, d, cluster) ==
    no_new_alarms_after_all_alerted(st, d, cluster) => alert_end(st, d, cluster)
consistency_monitor(st, d, cluster) ==
    alert_end(st, d, cluster) => no_new_alarms_after_all_alerted(st, d, cluster)

\* what the call-sites of the monitor commit in a round
MonitorCommit(new, st, d, cluster) ==
    LET n1 == Commit(new, KeyOf("mon_Y1", d), ~cluster)
        n2 == Commit(n1, KeyOf("mon_Y2", d), cluster)
        n3 == Commit(n2, KeyOf("mon_G", d), all_alerted(st, d, cluster))
    IN  Commit(n3, KeyOf("mon_AS", d),
               no_new_alarms_after_all_alerted(st, d, cluster))

\* ------------------------------------------------ group_walk, first_round

\* bool first_round = old(CALL, true, false);
first_round(st, d) == ReadOrInit(st, KeyOf("gw_first", d), TRUE)
first_round_stays == TRUE
first_round_next == FALSE

\* ------------------------------------------------ the Since model

SinceInit == sp = <<>> /\ sq = <<>> /\ sh = FALSE

\* one round of a device feeding p and q to a Since call-site
SinceRound(p, q) ==
    /\ Len(sp) < MaxLen
    /\ sp' = Append(sp, p)
    /\ sq' = Append(sq, q)
    /\ sh' = Since(sh, p, q)
    /\ UNCHANGED <<monVars, netVars, moveVars, auxVars>>

SinceNext == \E p \in BOOLEAN, q \in BOOLEAN : SinceRound(p, q)

\* ------------------------------------------------ the monitor model

\* speed and offset of the group of d: init<speed, constant_n<double,
\* group_speed * 1000, 3600>, offset, constant_n<double, group_radius>>
SpeedOf(d) ==
    [num |-> 1000 * (IF GroupKey(d) = 1 THEN group_speed ELSE group2_speed),
     den |-> 3600]
OffsetOf(d) == IF GroupKey(d) = 1 THEN group_radius ELSE group2_radius

\* store_t, with the values spawn_group gives and the defaults of the rest
StorInit(d) ==
    [speed |-> SpeedOf(d), offset |-> OffsetOf(d), node_color |-> "none",
     node_size |-> 0, node_shape |-> "none", consistency |-> FALSE,
     debug |-> ""]

\* the storage entries MAIN assigns (exercises.cpp:81-86)
MainStoreAll(s, warning, cluster, monitor_result) ==
    [s EXCEPT !.consistency = monitor_result,
              !.offset = IF cluster THEN 20 ELSE 10,
              !.node_size = IF cluster THEN 20 ELSE 10,
              !.node_color = IF monitor_result THEN "GREEN" ELSE "RED",
              !.node_shape = IF warning THEN "star" ELSE "sphere"]
MainStore(s, warning, cluster, monitor_result) ==
    [s EXCEPT !.consistency = monitor_result,
              !.node_size = IF cluster THEN 20 ELSE 10,
              !.node_color = IF monitor_result THEN "GREEN" ELSE "RED",
              !.node_shape = IF warning THEN "star" ELSE "sphere"]

MonInit ==
    /\ slot = [d \in Dev |-> EmptyStore]
    /\ rnd = [d \in Dev |-> 0]
    /\ log = [d \in Dev |-> <<>>]
    /\ stor = [d \in Dev |-> StorInit(d)]

\* One round of MAIN on device d, warning and cluster being what the
\* neighbourhood sums of the round gave: group_walk reads first_round and
\* the stored speed and offset, the monitor runs inside split, the round's
\* commits replace the device's store, and MAIN assigns its storage entries.
MainRound(d, warning, cluster) ==
    LET st == slot[d]
        new == MonitorCommit(
                   Commit(EmptyStore, KeyOf("gw_first", d), first_round_next),
                   st, d, cluster)
        entry == [cluster |-> cluster,
                  first_round |-> first_round(st, d),
                  alert_start |-> alert_start(st, d, cluster),
                  alert_end |-> alert_end(st, d, cluster),
                  all_alerted |-> all_alerted(st, d, cluster),
                  no_new |-> no_new_alarms_after_all_alerted(st, d, cluster),
                  result |-> consistency_monitor(st, d, cluster),
                  max_v |-> stor[d].speed,
                  radius |-> stor[d].offset,
                  read |-> [s \in Sites |->
                               ReadOrInit(st, KeyOf(s, d), Default(s))],
                  commit |-> new]
    IN  /\ rnd[d] < MaxRounds
        /\ slot' = [slot EXCEPT ![d] = new]
        /\ rnd' = [rnd EXCEPT ![d] = @ + 1]
        /\ log' = [log EXCEPT ![d] = Append(@, entry)]
        /\ stor' = [stor EXCEPT ![d] =
                        MainStore(@, warning, cluster,
                                  consistency_monitor(st, d, cluster))]
        /\ UNCHANGED <<sinceVars, netVars, moveVars, auxVars>>

\* cluster sums the device's own warning: it holds only with warning
MonNext ==
    \E d \in Dev, warning \in BOOLEAN, cluster \in BOOLEAN :
        (cluster => warning) /\ MainRound(d, warning, cluster)

\* ------------------------------------------------ the network model

\* two devices of group 1 (exercises.cpp:147)
NetDev == {100, 101}
\* positions on a line through the area: 0 and 20 are within a quarter of
\* the range of each other, 180 is out of range of both
NetPoints == {0, 20, 180}

Abs(x) == IF x < 0 THEN -x ELSE x

\* round_s: the first round at a uniform time of [0,1]
StartTimes == 0..TicksPerSec
\* round_s: the interval to the next round, Weibull with mean 1 and
\* deviation 0.1; the last value stands for its tail beyond the retention
Intervals == {TicksPerSec - 1, TicksPerSec, TicksPerSec + 1,
              retain * TicksPerSec + 1}

\* connector<connect::fixed<communication_range>>
InRange(pos, d, e) == Abs(pos[d] - pos[e]) <= communication_range

\* retain<metric::retain<3,1>>: an export is kept for 3 seconds
Retained(t, ts) == t - ts <= retain * TicksPerSec

\* import: for each current neighbour with a retained export, the most
\* recent one
Import(d, t, pos, ch) ==
    {[dev |-> e, ts |-> ch[e][i].ts] :
        <<e, i>> \in {x \in (NetDev \ {d}) \X (1..MaxKept) :
                        /\ InRange(pos, d, x[1])
                        /\ x[2] \in DOMAIN ch[x[1]]
                        /\ Retained(t, ch[x[1]][x[2]].ts)
                        /\ \A j \in DOMAIN ch[x[1]] :
                              ch[x[1]][j].ts <= ch[x[1]][x[2]].ts}}

\* export: the channel keeps the most recent exports of the device
Export(ch, d, rec) ==
    LET all == Append(ch[d], rec)
    IN  [ch EXCEPT ![d] = IF Len(all) > MaxKept THEN Tail(all) ELSE all]

\* sum_hood(mux(node.nbr_dist() < 0.25*communication_range, 1, 0)) > 5,
\* the device itself counted at distance 0
warning(d, pos, recs) ==
    1 + Cardinality({r \in recs :
                        4 * Abs(pos[d] - pos[r.dev]) < communication_range})
        > warning_count

\* sum_hood(mux(warning, 1, 0)) >= 3: warning is the device's own value,
\* summed over the device and its neighbours
cluster(d, pos, recs) ==
    (IF warning(d, pos, recs) THEN 1 + Cardinality(recs) ELSE 0)
        >= cluster_count

NoImport == [done |-> FALSE, time |-> 0, pos |-> [d \in NetDev |-> 0],
             chan |-> [d \in NetDev |-> <<>>], recs |-> {},
             warning |-> FALSE, cluster |-> FALSE]

NetInit ==
    /\ now = 0
    /\ nextT \in [NetDev -> StartTimes]
    /\ pc = [d \in NetDev |-> "idle"]
    /\ npos \in {f \in [NetDev -> NetPoints] : f[100] = 0}
    /\ chan = [d \in NetDev |-> <<>>]
    /\ imp = [d \in NetDev |-> NoImport]

\* Time advances by a tick once every round due now has run; devices move
\* between rounds (the follower d to point p; the leader is taken as the
\* origin of the line).
Tick(d, p) ==
    /\ now < MaxTime
    /\ \A e \in NetDev : pc[e] = "idle" /\ nextT[e] > now
    /\ now' = now + 1
    /\ npos' = [npos EXCEPT ![d] = p]
    /\ UNCHANGED <<nextT, pc, chan, imp, sinceVars, monVars, moveVars, auxVars>>

\* A round of d starts: the neighbourhood sums of MAIN read the import.
RoundStart(d) ==
    /\ pc[d] = "idle" /\ nextT[d] = now
    /\ pc' = [pc EXCEPT ![d] = "running"]
    /\ LET recs == Import(d, now, npos, chan)
       IN  imp' = [imp EXCEPT ![d] =
                      [done |-> TRUE, time |-> now, pos |-> npos,
                       chan |-> chan, recs |-> recs,
                       warning |-> warning(d, npos, recs),
                       cluster |-> cluster(d, npos, recs)]]
    /\ UNCHANGED <<now, nextT, npos, chan, sinceVars, monVars, moveVars, auxVars>>

\* The round of d ends: its export is published and the next round is
\* scheduled dt later. Rounds of different devices overlap (parallel<true>).
RoundEnd(d, dt) ==
    /\ pc[d] = "running"
    /\ pc' = [pc EXCEPT ![d] = "idle"]
    /\ chan' = Export(chan, d, [ts |-> now])
    /\ nextT' = [nextT EXCEPT ![d] = now + dt]
    /\ imp' = [imp EXCEPT ![d] = NoImport]
    /\ UNCHANGED <<now, npos, sinceVars, monVars, moveVars, auxVars>>

NetNext ==
    \/ \E d \in NetDev \ {100}, p \in NetPoints : Tick(d, p)
    \/ \E d \in NetDev : RoundStart(d)
    \/ \E d \in NetDev, dt \in Intervals : RoundEnd(d, dt)

\* ------------------------------------------------ the movement model

\* the leader of group 1 and one of its followers (exercises.cpp:147)
MoveDev == {100, 101}

\* device_t leader = node.uid - (node.uid % max_group_size);
leader(d) == d - (d % max_group_size)

Metres(x, y) == <<x * UnitsPerMetre, y * UnitsPerMetre>>
Add(a, b) == <<a[1] + b[1], a[2] + b[2]>>
Sub(a, b) == <<a[1] - b[1], a[2] - b[2]>>
Norm2(a) == a[1] * a[1] + a[2] * a[2]
\* division rounding towards zero
Trunc(a, b) == IF a >= 0 THEN a \div b ELSE -((-a) \div b)

RECURSIVE Bisect(_, _, _)
Bisect(lo, hi, n) ==
    IF lo >= hi THEN lo
    ELSE LET mid == (lo + hi) \div 2
         IN  IF mid * mid >= n THEN Bisect(lo, mid, n)
             ELSE Bisect(mid + 1, hi, n)
\* the least r with r * r >= n
CeilSqrt(n) == Bisect(0, 46340, n)

\* speed, distribution::constant_n<double, group_speed * 1000, 3600>: metres
\* per second, here length units per second
max_v == (group_speed * 1000 * UnitsPerMetre) \div 3600

InMapAny(p) == TRUE
InMap(p) ==
    /\ 0 <= p[1] /\ p[1] <= hi_x * UnitsPerMetre
    /\ 0 <= p[2] /\ p[2] <= hi_y * UnitsPerMetre

\* The navigation oracle on a map with one building: a point inside the
\* building has the nearest point of its wall as closest navigable point.
ObsLo == Metres(590, 390)
ObsHi == Metres(610, 410)
InObstacle(p) ==
    /\ ObsLo[1] < p[1] /\ p[1] < ObsHi[1]
    /\ ObsLo[2] < p[2] /\ p[2] < ObsHi[2]
closest_space(p) ==
    IF ~InObstacle(p) THEN p
    ELSE LET dl == p[1] - ObsLo[1]
             dr == ObsHi[1] - p[1]
             db == p[2] - ObsLo[2]
             dt == ObsHi[2] - p[2]
         IN  IF dl <= dr /\ dl <= db /\ dl <= dt THEN <<ObsLo[1], p[2]>>
             ELSE IF dr <= db /\ dr <= dt THEN <<ObsHi[1], p[2]>>
             ELSE IF db <= dt THEN <<p[1], ObsLo[2]>>
             ELSE <<p[1], ObsHi[2]>>

\* path_to: the next way-point from pos to target; the oracle finds none
\* ("nan"), answers the position itself ("here") or a corner of the
\* building ("corner")
WayChoices == {"nan", "here", "corner"}
path_to(pos, target, wc) ==
    [nan |-> wc = "nan",
     p |-> IF wc = "corner" THEN ObsHi ELSE pos]

\* node.position() - t < 0.01
Near(a, b) ==
    LET d2 == Norm2(Sub(a, b))
    IN  /\ d2 <= UnitsPerMetre * UnitsPerMetre
        /\ near_den * near_den * d2 < UnitsPerMetre * UnitsPerMetre

\* v < 0.1, v being acc * (1 - k) and acc kept in multiples of 1 / FixPt
Slow(acc) ==
    (k_den - k_num) * (k_den - k_num) * slow_den * slow_den * Norm2(acc)
        < (UnitsPerMetre * k_den * FixPt) * (UnitsPerMetre * k_den * FixPt)

\* k*ov + node.position() - old(CALL, node.position())
Smooth(acc, disp) ==
    <<Trunc(k_num * acc[1], k_den) + FixPt * disp[1],
      Trunc(k_num * acc[2], k_den) + FixPt * disp[2]>>

\* time_since(CALL, b): the time elapsed since b last held, since the start
\* if it never did; last is the time kept by the call-site
TimeSince(last, T) == T - last

\* time_since(CALL, v < 0.1) < 10 and node.current_time() > 50
StuckRule(ts, T) == ts < stuck_window /\ T > stuck_after

\* the way-point handed to follow_target (movement.hpp:46-54)
WayPoint(pos, target, owp, stuck) ==
    LET t1 == IF owp.nan THEN target ELSE owp.p
        t2 == IF ~InMap(target) THEN target ELSE t1
        t3 == IF Near(pos, t2) THEN target ELSE t2
    IN  IF stuck THEN target ELSE t3

\* follow_target: the step of the round towards t, at most max_v * period
\* long and not beyond t
Step(pos, t, mv, per) ==
    LET d == Sub(t, pos)
        d2 == Norm2(d)
    IN  IF d2 <= (mv * per) * (mv * per) THEN d
        ELSE LET r == CeilSqrt(d2)
             IN  <<Trunc(d[1] * mv * per, r), Trunc(d[2] * mv * per, r)>>

NoRos == [set |-> FALSE, acc |-> <<0, 0>>, ppos |-> <<0, 0>>, last |-> 0]

\* reach_on_streets at time T from position pos: the new position, the
\* squared distance reported, the call-sites' new values and what was chosen
reach_on_streets(ros, pos, tgt, mv, per, T, wc) ==
    LET disp == Sub(pos, IF ros.set THEN ros.ppos ELSE pos)
        acc == Smooth(IF ros.set THEN ros.acc ELSE <<0, 0>>, disp)
        slow == Slow(acc)
        last == IF slow THEN T ELSE IF ros.set THEN ros.last ELSE 0
        stuck == StuckRule(TimeSince(last, T), T)
        target == closest_space(tgt)
        owp == path_to(pos, target, wc)
        way == WayPoint(pos, target, owp, stuck)
        step == Step(pos, way, mv, per)
    IN  [pos |-> Add(pos, step), dist2 |-> Norm2(step),
         ros |-> [set |-> TRUE, acc |-> acc, ppos |-> pos, last |-> last],
         slow |-> slow, stuck |-> stuck, target |-> target, owp |-> owp,
         way |-> way]

\* auto fit_bounds = [](real_t v, real_t mx){ return max(0, min(v, mx)); }
Min(a, b) == IF a <= b THEN a ELSE b
Max(a, b) == IF a >= b THEN a ELSE b
fit_bounds_none(v, mx) == v
fit_bounds(v, mx) == Max(0, Min(v, mx))

NoPoint == [set |-> FALSE, p |-> <<0, 0>>]
NoState == [started |-> FALSE, held |-> NoPoint, off |-> NoPoint, ros |-> NoRos]
NoRound == [done |-> FALSE, first |-> FALSE, ros |-> FALSE, T |-> 0,
            before |-> <<0, 0>>, after |-> <<0, 0>>,
            raw |-> <<0, 0>>, chased |-> <<0, 0>>, target |-> <<0, 0>>,
            owp |-> [nan |-> FALSE, p |-> <<0, 0>>], way |-> <<0, 0>>,
            slow |-> FALSE, stuck |-> FALSE, run |-> 0, had |-> FALSE,
            reads |-> {}, dist2 |-> 0, from |-> <<0, 0>>,
            drawn |-> <<0, 0>>, used |-> <<0, 0>>, odrawn |-> <<0, 0>>,
            ofirst |-> <<0, 0>>]

\* node.net.node_at(leader).position(): what a round of d reads of other
\* devices from the net itself, a follower its leader's position
node_at(d) ==
    IF d = leader(d) THEN {}
    ELSE {[dev |-> leader(d), pos |-> mpos[leader(d)]]}

\* what the round of d did, r being what reach_on_streets returned: run counts
\* the consecutive rounds with v < 0.1, up to stuck_window, and had tells
\* whether stuck_window consecutive such rounds have ever occurred
RoundInfo(d, first, T, raw, chased, r) ==
    [done |-> TRUE, first |-> first, ros |-> TRUE, T |-> T,
     before |-> mpos[d], after |-> r.pos, raw |-> raw, chased |-> chased,
     target |-> r.target, owp |-> r.owp, way |-> r.way,
     slow |-> r.slow, stuck |-> r.stuck,
     run |-> IF r.slow THEN Min(mlast[d].run + 1, stuck_window) ELSE 0,
     had |-> mlast[d].had \/ (r.slow /\ mlast[d].run + 1 >= stuck_window),
     reads |-> node_at(d), dist2 |-> r.dist2, from |-> r.ros.ppos,
     drawn |-> <<0, 0>>, used |-> <<0, 0>>, odrawn |-> <<0, 0>>,
     ofirst |-> <<0, 0>>]

\* bool first_round = old(CALL, true, false), on the round state st
walk_first_round_always(st) == TRUE
walk_first_round(st) == ~st.started

\* return dist > max_v * period ? t : target;
RetargetKeep(dist2, t, target, mv, per) == t
Retarget(dist2, t, target, mv, per) ==
    IF dist2 > (mv * per) * (mv * per) THEN t ELSE target

\* group_walk on a leader: tg is the target drawn in the round, wc the
\* oracle's answer; the round runs at time mrnd[d]
LeaderRound(d, tg, wc, maxr) ==
    LET first == walk_first_round(mst[d])
        T == mrnd[d]
        p0 == IF first THEN closest_space(mpos[d]) ELSE mpos[d]
        t == IF mst[d].held.set THEN mst[d].held.p ELSE tg
        r == reach_on_streets(mst[d].ros, p0, t, max_v, period, T, wc)
        held == Retarget(r.dist2, t, tg, max_v, period)
    IN  /\ d = leader(d)
        /\ mrnd[d] < maxr
        /\ mpos' = [mpos EXCEPT ![d] = r.pos]
        /\ mrnd' = [mrnd EXCEPT ![d] = @ + 1]
        /\ mst' = [mst EXCEPT ![d] =
                      [started |-> TRUE, held |-> [set |-> TRUE, p |-> held],
                       off |-> NoPoint, ros |-> r.ros]]
        /\ mlast' = [mlast EXCEPT ![d] =
                        [RoundInfo(d, first, T, t, t, r) EXCEPT !.drawn = tg]]
        /\ UNCHANGED <<sinceVars, monVars, netVars, auxVars>>

\* constant(CALL, t): the value of the first round, kept in the round state
constant_redraw(kept, t) == t
constant(kept, t) == IF kept.set THEN kept.p ELSE t

\* group_walk on a follower: o is the offset drawn in the round
FollowerRound(d, o, wc, maxr) ==
    LET first == walk_first_round(mst[d])
        T == mrnd[d]
        off == constant(mst[d].off, o)
        ofirst == IF first THEN o ELSE mlast[d].ofirst
        raw == Add(off, mpos[leader(d)])
        t == <<fit_bounds(raw[1], hi_x * UnitsPerMetre),
               fit_bounds(raw[2], hi_y * UnitsPerMetre)>>
        r == reach_on_streets(mst[d].ros, mpos[d], t, max_v, period, T, wc)
        st == [started |-> TRUE, held |-> NoPoint,
               off |-> [set |-> TRUE, p |-> off],
               ros |-> IF first THEN mst[d].ros ELSE r.ros]
    IN  /\ d # leader(d)
        /\ mrnd[d] < maxr
        /\ mrnd' = [mrnd EXCEPT ![d] = @ + 1]
        /\ mst' = [mst EXCEPT ![d] = st]
        /\ IF first
           THEN /\ mpos' = [mpos EXCEPT ![d] = closest_space(t)]
                /\ mlast' = [mlast EXCEPT ![d] =
                       [NoRound EXCEPT !.done = TRUE, !.first = TRUE,
                            !.T = T, !.before = mpos[d],
                            !.after = closest_space(t),
                            !.raw = raw, !.chased = t,
                            !.reads = node_at(d), !.used = off,
                            !.odrawn = o, !.ofirst = ofirst]]
           ELSE /\ mpos' = [mpos EXCEPT ![d] = r.pos]
                /\ mlast' = [mlast EXCEPT ![d] =
                       [RoundInfo(d, first, T, raw, t, r) EXCEPT
                            !.used = off, !.odrawn = o, !.ofirst = ofirst]]
        /\ UNCHANGED <<sinceVars, monVars, netVars, auxVars>>

\* x, rectangle_d: the spawn position, anywhere in the map (here the centre,
\* which is inside the building, a point by the top right corner and the
\* origin); the follower spawns at the centre
Spawns == {Metres(600, 395), Metres(1180, 790), Metres(0, 0)}
FollowerSpawn == Metres(600, 395)
\* random_rectangle_target(CALL, low, hi)
Targets == {Metres(600, 395), Metres(1200, 800)}
\* random_rectangle_target(CALL, make_vec(-radius, -radius),
\*                         make_vec(radius, radius))
Offsets == {Metres(-group_radius, -group_radius), Metres(0, 0),
            Metres(group_radius, group_radius)}

MoveIdle ==
    /\ mpos = [d \in MoveDev |-> Metres(0, 0)]
    /\ mrnd = [d \in MoveDev |-> 0]
    /\ mst = [d \in MoveDev |-> NoState]
    /\ mlast = [d \in MoveDev |-> NoRound]

MoveInit ==
    /\ mpos \in {f \in [MoveDev -> Spawns] :
                    \A d \in MoveDev : d # leader(d) => f[d] = FollowerSpawn}
    /\ mrnd = [d \in MoveDev |-> 0]
    /\ mst = [d \in MoveDev |-> NoState]
    /\ mlast = [d \in MoveDev |-> NoRound]

MoveNext ==
    \/ \E d \in MoveDev, tg \in Targets, wc \in WayChoices :
          LeaderRound(d, tg, wc, MaxMoveRounds)
    \/ \E d \in MoveDev, o \in Offsets, wc \in WayChoices :
          FollowerRound(d, o, wc, MaxMoveRounds)

\* The stuck-recovery model: the leader alone, walking between its spawn
\* point and a target one round of walking away for many rounds, the
\* oracle answering the position itself.
StuckSpawn == Metres(100, 100)
StuckTargets == {StuckSpawn, Add(StuckSpawn, <<max_v * period, 0>>)}
StuckWays == {"here"}

StuckInit ==
    /\ mpos = [d \in MoveDev |-> StuckSpawn]
    /\ mrnd = [d \in MoveDev |-> 0]
    /\ mst = [d \in MoveDev |-> NoState]
    /\ mlast = [d \in MoveDev |-> NoRound]

StuckNext ==
    \E tg \in StuckTargets, wc \in StuckWays :
        LeaderRound(100, tg, wc, MaxStuckRounds)

NetIdle ==
    /\ now = 0
    /\ nextT = [d \in NetDev |-> 0]
    /\ pc = [d \in NetDev |-> "idle"]
    /\ npos = [d \in NetDev |-> 0]
    /\ chan = [d \in NetDev |-> <<>>]
    /\ imp = [d \in NetDev |-> NoImport]

\* ------------------------------------------------------------ call-sites

\* The state call-sites a round evaluates, each with the partition path it is
\* evaluated under: the stack of the calls entered and the keys of the
\* splits entered. Sites are named by function and source line.
Root == [stack |-> <<>>, keys |-> <<>>]
\* a call made through CALL is on the stack while its body runs
EnterFlat(path, site) == path
Enter(path, site) == [path EXCEPT !.stack = Append(@, site)]
At(path, site) == <<[site |-> site, path |-> path]>>

\* Y, G, AS and time_since keep their state at a call-site of their own body
YCalls(path) == At(path, "Y")
GCalls(path) == At(path, "G")
ASCalls(path) == At(path, "AS")
time_since_calls(path) == At(path, "time_since")

\* reach_on_streets: the two old of lines 42-43 and time_since of line 53
ReachCalls(path) ==
    At(path, "ros42") \o At(path, "ros43")
        \o time_since_calls(Enter(path, "ros53"))

\* group_walk: old of line 69, then old of line 75 around reach_on_streets
\* for a leader, constant of line 82 and, but for the first round,
\* reach_on_streets of line 90 for a follower
GroupWalkCalls(d, first, path) ==
    At(path, "gw69") \o
    IF d = leader(d)
    THEN At(path, "gw75") \o ReachCalls(Enter(path, "gw76"))
    ELSE At(path, "gw82") \o
         IF first THEN <<>> ELSE ReachCalls(Enter(path, "gw90"))

\* consistency_monitor: Y, Y, G and AS inside the split on the group
MonitorCalls(d, path) ==
    LET p == [Enter(path, "mon57") EXCEPT !.keys = Split(@, GroupKey(d))]
    IN  YCalls(Enter(p, "mon58")) \o YCalls(Enter(p, "mon59"))
            \o GCalls(Enter(p, "mon60")) \o ASCalls(Enter(p, "mon61"))

\* MAIN: group_walk of line 73 and consistency_monitor of line 80
MainCalls(d, first) ==
    GroupWalkCalls(d, first, Enter(Root, "main73"))
        \o MonitorCalls(d, Enter(Root, "main80"))

\* ------------------------------------------------------------ setup

\* the group ids and sizes a configuration is drawn from
ConfIds == {-1, 0, 1}
ConfSizes == {0, 1, 2, max_group_size}
\* the lists of spawn groups with distinct ids
Configs ==
    {c \in SUBSET [id : ConfIds, size : ConfSizes] :
        c # {} /\ \A g, h \in c : g.id = h.id => g = h}

\* option_assert<group_id >= 0>
IdOk(id) == id >= 0
\* option_assert<0 < group_size and group_size < max_group_size>
SizeAny(size) == TRUE
SizeOk(size) == 0 < size /\ size < max_group_size
\* option_assert<false> is not defined: the options exist only if every
\* assertion of every group holds
Accepted(c) == \A g \in c : IdOk(g.id) /\ SizeOk(g.size)

\* arithmetic_sequence<R, start, step>: the constant start - step added to
\* the accumulated step; k is the number of values generated so far
SeqBaseNoShift(start, step) == start
SeqBase(start, step) == start - step
arithmetic_sequence(start, step, k) == k * step + SeqBase(start, step)

SetupIdle ==
    /\ conf = {}
    /\ nspawn = [i \in ConfIds |-> 0]
    /\ devs = {}
    /\ seen = {}

SetupInit ==
    /\ conf \in Configs
    /\ nspawn = [i \in ConfIds |-> 0]
    /\ devs = {}
    /\ seen = {}

\* a spawn event of group g: group_size events, the uid from the sequence
\* starting at max_group_size * group_id with step 1
Spawn(g) ==
    /\ Accepted(conf)
    /\ g \in conf
    /\ nspawn[g.id] < g.size
    /\ nspawn' = [nspawn EXCEPT ![g.id] = @ + 1]
    /\ devs' = devs \cup
          {arithmetic_sequence(max_group_size * g.id, 1, nspawn[g.id] + 1)}
    /\ UNCHANGED <<conf, seen, wcall, sinceVars, monVars, netVars, moveVars>>

\* a round of the spawned device u: the leader and the role group_walk
\* derives, and the key the monitor splits on
SetupRound(u) ==
    /\ u \in devs
    /\ seen' = seen \cup {[uid |-> u, leader |-> leader(u),
                           isLeader |-> (u = leader(u)),
                           key |-> GroupKey(u)]}
    /\ UNCHANGED <<conf, nspawn, devs, wcall,
                   sinceVars, monVars, netVars, moveVars>>

SetupNext ==
    \/ \E g \in conf : Spawn(g)
    \/ \E u \in devs : SetupRound(u)

\* ------------------------------------------------------------ way-point

\* The decision of reach_on_streets alone, on positions, snapped targets and
\* oracle answers of every kind.
WayPositions == {Metres(100, 100), Metres(590, 390), Metres(1200, 800)}
WayTargets == {Metres(100, 100), Metres(590, 390), Metres(1200, 800),
               Metres(1201, 400), Metres(600, -1)}
WayAnswers ==
    {[nan |-> TRUE, p |-> Metres(0, 0)]} \cup
    {[nan |-> FALSE, p |-> q] : q \in WayPositions}

NoCall == [done |-> FALSE, pos |-> Metres(0, 0), target |-> Metres(0, 0),
           owp |-> [nan |-> FALSE, p |-> Metres(0, 0)], stuck |-> FALSE,
           way |-> Metres(0, 0), step |-> Metres(0, 0)]

WayIdle == wcall = NoCall

\* movement.hpp:46-55 at position pos, target being the snapped target, owp
\* the oracle's answer and stuck what the stuck rule says
WayCall(pos, target, owp, stuck) ==
    /\ wcall' = [done |-> TRUE, pos |-> pos, target |-> target, owp |-> owp,
                 stuck |-> stuck,
                 way |-> WayPoint(pos, target, owp, stuck),
                 step |-> Step(pos, WayPoint(pos, target, owp, stuck),
                               max_v, period)]
    /\ UNCHANGED <<setupVars, sinceVars, monVars, netVars, moveVars>>

WayNext ==
    \E pos \in WayPositions, target \in WayTargets, owp \in WayAnswers,
       stuck \in BOOLEAN : WayCall(pos, target, owp, stuck)

\* ------------------------------------------------ specifications

Init == SinceInit /\ MonInit /\ NetInit /\ MoveInit /\ SetupInit /\ WayIdle

\* each part of the program alone, the other parts at rest
InitLocal == SinceInit /\ MonInit /\ NetIdle /\ MoveIdle /\ SetupIdle
                /\ WayIdle
InitNet == SinceInit /\ MonInit /\ NetInit /\ MoveIdle /\ SetupIdle
                /\ WayIdle
InitMove == SinceInit /\ MonInit /\ NetIdle /\ MoveInit /\ SetupIdle
                /\ WayIdle
InitStuck == SinceInit /\ MonInit /\ NetIdle /\ StuckInit /\ SetupIdle
                /\ WayIdle

SpecSince == InitLocal /\ [][SinceNext]_vars
SpecMon == InitLocal /\ [][MonNext]_vars
SpecNet == InitNet /\ [][NetNext]_vars
SpecMove == InitMove /\ [][MoveNext]_vars
SpecStuck == InitStuck /\ [][StuckNext]_vars

InitSetup == SinceInit /\ MonInit /\ NetIdle /\ MoveIdle /\ SetupInit
                /\ WayIdle
InitWay == SinceInit /\ MonInit /\ NetIdle /\ MoveIdle /\ SetupIdle
                /\ WayIdle
SpecSetup == InitSetup /\ [][SetupNext]_vars
SpecWay == InitWay /\ [][WayNext]_vars

Next ==
    SinceNext \/ MonNext \/ NetNext \/ MoveNext \/ SetupNext \/ WayNext
Spec == Init /\ [][Next]_vars

\* ------------------------------------------------ claims

\* the sequence of field f over the rounds device d has executed
Hist(d, f) == [r \in 1..Len(log[d]) |-> log[d][r][f]]
Neg(seq) == [r \in 1..Len(seq) |-> ~seq[r]]

\* C1: at every round the incrementally computed Since value equals the
\* direct definition over the p and q fed so far, and it is false as long
\* as q never held.
C1_SinceIsDirect ==
    Len(sp) > 0 =>
        /\ sh = DirectSince(sp, sq, Len(sp))
        /\ (\A r \in 1..Len(sq) : ~sq[r]) => ~sh

\* C1 witness: Since holds at round 3 by continuity, q having held only at
\* round 1.
C1_Witness ==
    /\ Len(sp) = 3 /\ sh
    /\ sq = <<TRUE, FALSE, FALSE>>

C3_Scenario ==
    \A d \in Dev :
        Hist(d, "cluster") = <<FALSE, FALSE, TRUE, TRUE, FALSE>> =>
            /\ Hist(d, "alert_start") = <<FALSE, FALSE, TRUE, FALSE, FALSE>>
            /\ Hist(d, "alert_end") = <<FALSE, FALSE, FALSE, FALSE, TRUE>>
            /\ Hist(d, "all_alerted") = <<FALSE, FALSE, TRUE, TRUE, FALSE>>
            /\ log[d][5].result =
                  (log[d][5].alert_end =>
                      DirectSince(Neg(Hist(d, "alert_start")),
                                  Hist(d, "all_alerted"), 5))

\* C4: a read at round r returns the value the same call-site committed at
\* round r - 1 under the same path, and the default at the first round;
\* first_round is true on the first round only.
C4_OneRoundLag ==
    \A d \in Dev : \A r \in 1..Len(log[d]) :
        /\ \A s \in Sites :
              log[d][r].read[s] =
                  IF r = 1 THEN Default(s)
                  ELSE log[d][r - 1].commit[KeyOf(s, d)].val
        /\ r > 1 => \A s \in Sites : log[d][r - 1].commit[KeyOf(s, d)].set
        /\ log[d][r].first_round = (r = 1)

\* C4 witness: a third round read the cluster committed by the second, which
\* differs from the one committed by the first.
C4_Witness ==
    \E d \in Dev :
        /\ Len(log[d]) = 3
        /\ log[d][1].cluster /\ ~log[d][2].cluster
        /\ ~log[d][3].read["mon_Y2"] /\ ~log[d][3].first_round

\* C5: every call-site's slot holds what that call-site committed, whatever
\* the other call-sites committed in the round, and nothing a device
\* commits in its group's split is under the path another group reads.
C5_SlotIsolation ==
    \A d \in Dev : rnd[d] > 0 =>
        LET c == Hist(d, "cluster")
            n == Len(c)
        IN  /\ slot[d][KeyOf("mon_Y1", d)].val = ~c[n]
            /\ slot[d][KeyOf("mon_Y2", d)].val = c[n]
            /\ slot[d][KeyOf("mon_G", d)].val = (\A r \in 1..n : c[r])
            /\ slot[d][KeyOf("mon_AS", d)].val = log[d][n].no_new
            /\ slot[d][KeyOf("gw_first", d)].val = FALSE
            /\ \A e \in Dev : GroupKey(e) # GroupKey(d) =>
                  \A s \in Sites \ {"gw_first"} : ~slot[d][KeyOf(s, e)].set

\* C5 witness: two devices of different groups hold different histories
\* under the same call-sites.
C5_Witness ==
    /\ rnd[101] = 2 /\ rnd[200] = 2
    /\ slot[101][KeyOf("mon_G", 101)].val
    /\ ~slot[200][KeyOf("mon_G", 200)].val
    /\ slot[101][KeyOf("mon_Y1", 101)].val # slot[101][KeyOf("mon_Y2", 101)].val

\* the timestamps of e's exports, as device d's last import found them, that
\* are no older than 3 seconds
InWindow(d, e) ==
    {imp[d].chan[e][i].ts : i \in {j \in DOMAIN imp[d].chan[e] :
        imp[d].time - imp[d].chan[e][j].ts <= 3 * TicksPerSec}}

\* C6: an import never returns an export from the importer's future (every
\* returned export was published before the import, at a time not after
\* it), nor one older than 3 seconds, nor one of a device farther than 100.
C6_ImportVisibility ==
    \A d \in NetDev : imp[d].done =>
        \A r \in imp[d].recs :
            /\ r.dev # d
            /\ \E i \in DOMAIN imp[d].chan[r.dev] :
                  imp[d].chan[r.dev][i].ts = r.ts
            /\ r.ts <= imp[d].time
            /\ imp[d].time - r.ts <= 3 * TicksPerSec
            /\ Abs(imp[d].pos[d] - imp[d].pos[r.dev]) <= 100

\* C6 witness: the neighbour is within range and has exported, but more than
\* 3 seconds before the import, which returns nothing.
C6_Witness ==
    \E d \in NetDev : \E e \in NetDev \ {d} :
        /\ imp[d].done /\ imp[d].recs = {}
        /\ Abs(imp[d].pos[d] - imp[d].pos[e]) <= 100
        /\ imp[d].chan[e] # <<>>
        /\ InWindow(d, e) = {}

\* C7: the import holds at most one value per neighbour, the neighbour's most
\* recent export among those no older than 3 seconds.
C7_FreshestPerNeighbour ==
    \A d \in NetDev : imp[d].done =>
        /\ \A r1, r2 \in imp[d].recs : r1.dev = r2.dev => r1 = r2
        /\ \A r \in imp[d].recs :
              /\ r.ts \in InWindow(d, r.dev)
              /\ \A t \in InWindow(d, r.dev) : t <= r.ts

\* C7 witness: the neighbour has two exports within the window and the
\* import returned the later one.
C7_Witness ==
    \E d \in NetDev : \E e \in NetDev \ {d} :
        /\ imp[d].done
        /\ Cardinality(InWindow(d, e)) = 2
        /\ \E r \in imp[d].recs : r.dev = e /\ \E t \in InWindow(d, e) : t < r.ts

\* C8: in every round of every device, the first included, the device's
\* displacement is at most maxSpeed x period long, period being 1.
C8_DisplacementBound ==
    \A d \in MoveDev : mlast[d].done =>
        Norm2(Sub(mlast[d].after, mlast[d].before)) <= (max_v * 1) * (max_v * 1)

C10_StuckExactly ==
    \A d \in MoveDev : mlast[d].ros =>
        /\ mlast[d].stuck => (mlast[d].had /\ mlast[d].T > 50)
        /\ (mlast[d].run >= 10 /\ mlast[d].T > 50) => mlast[d].stuck

\* C11: a round of a device reads of another device only what the channel
\* delivers: it reads nothing of a device that is not within the
\* communication range of 100.
C11_OnlyThroughChannel ==
    \A d \in MoveDev : mlast[d].done =>
        \A x \in mlast[d].reads :
            Norm2(Sub(x.pos, mlast[d].before))
                <= (100 * UnitsPerMetre) * (100 * UnitsPerMetre)

\* C12: every group of spawned devices has exactly one leader, the device
\* whose uid is 100 * group_id; every device's leader exists, the monitor's
\* key uid / 100 is the group id, the devices of a group are as many as its
\* spawn events, and the role a device's rounds derive never changes.
C12_OneLeaderPerGroup ==
    /\ \A u \in devs :
          /\ (u - (u % 100)) \in devs
          /\ \E g \in conf : u \div 100 = g.id /\ u - 100 * g.id < g.size
    /\ \A g \in conf :
          /\ Cardinality({u \in devs : u \div 100 = g.id}) = nspawn[g.id]
          /\ nspawn[g.id] > 0 =>
                {u \in devs : u \div 100 = g.id /\ u % 100 = 0}
                    = {100 * g.id}
    /\ \A r \in seen :
          /\ r.leader \in devs
          /\ r.leader = 100 * r.key
          /\ r.isLeader = (r.uid = 100 * r.key)
          /\ \E g \in conf : r.key = g.id
    /\ \A r1, r2 \in seen : r1.uid = r2.uid => r1.isLeader = r2.isLeader

\* C12 witness: two groups of two devices are spawned, and a leader and a
\* follower of one group and a device of the other have executed rounds.
C12_Witness ==
    /\ Cardinality(conf) = 2
    /\ devs = {0, 1, 100, 101}
    /\ \E r1, r2, r3 \in seen :
          /\ r1.uid = 100 /\ r1.isLeader
          /\ r2.uid = 101 /\ ~r2.isLeader /\ r2.leader = 100
          /\ r3.key = 0

\* C13: if a configured group has a negative id or a size outside 1..99,
\* no device is ever spawned and no round is ever executed.
C13_RejectedAtSetup ==
    (\E g \in conf : g.id < 0 \/ g.size < 1 \/ g.size > 99) =>
        /\ devs = {}
        /\ seen = {}
        /\ \A i \in DOMAIN nspawn : nspawn[i] = 0

\* C13 witness: a group of size 100 is configured next to a valid group,
\* and nothing has been spawned.
C13_Witness ==
    /\ [id |-> 0, size |-> 2] \in conf
    /\ [id |-> 1, size |-> 100] \in conf
    /\ devs = {}

C15_FallbackToTarget ==
    wcall.done =>
        LET outside == \/ wcall.target[1] < 0
                       \/ wcall.target[2] < 0
                       \/ wcall.target[1] > 1200 * UnitsPerMetre
                       \/ wcall.target[2] > 800 * UnitsPerMetre
            d2 == Norm2(Sub(wcall.pos, wcall.owp.p))
            close == /\ ~wcall.owp.nan
                     /\ d2 <= UnitsPerMetre * UnitsPerMetre
                     /\ 100 * 100 * d2 < UnitsPerMetre * UnitsPerMetre
        IN  /\ wcall.way =
                  IF wcall.owp.nan \/ outside \/ close \/ wcall.stuck
                  THEN wcall.target ELSE wcall.owp.p
            /\ wcall.step = Step(wcall.pos, wcall.way, max_v, period)

\* C15 witness: the oracle answered a way-point that is not NaN and not
\* close, the stuck rule did not fire, the target is outside the map, and
\* the device steps towards the target.
C15_Witness ==
    /\ wcall.done /\ ~wcall.owp.nan /\ ~wcall.stuck
    /\ wcall.owp.p # wcall.pos
    /\ wcall.target[1] > 1200 * UnitsPerMetre
    /\ wcall.way = wcall.target /\ wcall.way # wcall.owp.p
    /\ wcall.step # <<0, 0>>

\* C16: a device's position is assigned by snapping on its first executed
\* round and on no other: a follower's first round puts it at the closest
\* navigable point of its clamped target without invoking reach_on_streets,
\* a leader's first round starts walking from the closest navigable point
\* of its spawn position, and every later round invokes reach_on_streets
\* from the position the device had.
C16_PositionedOnce ==
    \A d \in MoveDev : mlast[d].done =>
        /\ mlast[d].first = (mrnd[d] = 1)
        /\ (mlast[d].first /\ d # leader(d)) =>
              /\ ~mlast[d].ros
              /\ mlast[d].after = closest_space(mlast[d].chased)
        /\ (mlast[d].first /\ d = leader(d)) =>
              /\ mlast[d].ros
              /\ mlast[d].from = closest_space(mlast[d].before)
        /\ ~mlast[d].first =>
              /\ mlast[d].ros
              /\ mlast[d].from = mlast[d].before

\* C16 witness: a follower has walked on its second round by
\* reach_on_streets, and its leader, spawned inside the building, started
\* its first round from the wall.
C16_Witness ==
    \E d \in MoveDev :
        /\ d # leader(d) /\ mrnd[d] = 2
        /\ mlast[d].ros /\ mlast[d].after # mlast[d].before
        /\ mlast[leader(d)].done /\ mlast[leader(d)].first
        /\ mlast[leader(d)].from # mlast[leader(d)].before

\* C17: the offset a follower adds to its leader's position in a round is
\* the offset drawn on the follower's first round, whatever is drawn in the
\* round.
C17_OffsetDrawnOnce ==
    \A d \in MoveDev : (d # leader(d) /\ mlast[d].done) =>
        /\ mlast[d].used = mlast[d].ofirst
        /\ \A x \in mlast[d].reads : mlast[d].raw = Add(mlast[d].ofirst, x.pos)
        /\ mlast[d].reads # {}

\* C17 witness: on its second round a follower drew an offset other than
\* its first and used the first.
C17_Witness ==
    \E d \in MoveDev :
        /\ d # leader(d) /\ mrnd[d] = 2 /\ mlast[d].done
        /\ mlast[d].odrawn # mlast[d].ofirst
        /\ mlast[d].used = mlast[d].ofirst

\* C18: in every round of every device no state call-site is evaluated
\* twice under the same partition path, and reach_on_streets' call-sites are
\* evaluated in the rounds that invoke it and in no other.
C18_CallSitesOnce ==
    \A d \in MoveDev : mlast[d].done =>
        LET c == MainCalls(d, mlast[d].first)
        IN  /\ \A i, j \in 1..Len(c) : i # j => c[i] # c[j]
            /\ mlast[d].ros = (\E i \in 1..Len(c) : c[i].site = "ros42")

\* C18 witness: a follower's later round evaluates reach_on_streets'
\* call-sites, and the call-site inside Y twice, under two paths.
C18_Witness ==
    \E d \in MoveDev :
        /\ d # leader(d) /\ mlast[d].done /\ ~mlast[d].first /\ mlast[d].ros
        /\ LET c == MainCalls(d, mlast[d].first)
           IN  \E i, j \in 1..Len(c) :
                  i # j /\ c[i].site = "Y" /\ c[j].site = "Y"

\* C19: the monitor's result is false only at a round where cluster is
\* false and was true at the device's previous round; it is true at every
\* round where cluster is true and at every round, the first included, whose
\* previous round had cluster false; alert_start and alert_end are never
\* both true.
C19_FalseOnlyAtAlertEnd ==
    \A d \in Dev : \A r \in 1..Len(log[d]) :
        /\ ~log[d][r].result =>
              /\ ~log[d][r].cluster
              /\ r > 1
              /\ log[d][r - 1].cluster
        /\ ~(log[d][r].alert_start /\ log[d][r].alert_end)

\* C19 witness: the result of a device is false at its third round, where
\* cluster fell after holding at the second, and was true before.
C19_Witness ==
    \E d \in Dev :
        /\ Len(log[d]) = 3
        /\ log[d][1].result /\ log[d][2].result /\ ~log[d][3].result
        /\ ~log[d][1].cluster /\ log[d][2].cluster /\ ~log[d][3].cluster

\* C20: a round of MAIN assigns the consistency, node_size, node_color and
\* node_shape storage entries and leaves the others as they were: the speed
\* and the offset group_walk reads are the configured ones at every round,
\* whatever the monitor's results have been.
C20_StorageFrame ==
    \A d \in Dev :
        LET speed == IF d = 101 THEN [num |-> 3000, den |-> 3600]
                     ELSE [num |-> 5000, den |-> 3600]
            offset == IF d = 101 THEN 50 ELSE 20
        IN  /\ stor[d].speed = speed
            /\ stor[d].offset = offset
            /\ stor[d].debug = ""
            /\ \A r \in 1..Len(log[d]) :
                  log[d][r].max_v = speed /\ log[d][r].radius = offset
            /\ Len(log[d]) > 0 =>
                  LET e == log[d][Len(log[d])]
                  IN  /\ stor[d].consistency = e.result
                      /\ stor[d].node_size = (IF e.cluster THEN 20 ELSE 10)
                      /\ stor[d].node_color =
                            (IF e.result THEN "GREEN" ELSE "RED")
                      /\ stor[d].node_shape \in {"star", "sphere"}
                      /\ e.cluster => stor[d].node_shape = "star"

\* C20 witness: after a round whose result was false and one whose result
\* was true a device's round read the configured speed and offset.
C20_Witness ==
    \E d \in Dev :
        /\ Len(log[d]) = 4
        /\ ~log[d][3].result /\ log[d][4].result
        /\ stor[d].node_color = "GREEN" /\ stor[d].node_shape = "star"
        /\ log[d][4].max_v = [num |-> 3000, den |-> 3600]

====
